---- MODULE Spec2Model ----
(***************************************************************************)
(* A model of the ONS API tutorial scripts (examples/01..04):              *)
(*   - get_json, the retrying GET of 04_batch_download.py                  *)
(*   - get_all_datasets, the pagination loop of 01_list_datasets.py        *)
(*   - get_edition_url / get_latest_version_url, the version resolvers     *)
(*   - get_observations / download_observations, the observation fetchers  *)
(*   - main of 04_batch_download.py, the batch loop with its edition cache *)
(*   - explore_dimensions of 02_explore_dimensions.py                      *)
(* Python's None is modelled by the record None for JSON values and by the *)
(* string NoHref for link values, so that each value keeps one TLC type.   *)
(***************************************************************************)
EXTENDS Integers, Sequences, FiniteSets, TLC

VARIABLES
    fetch_in,      \* get_json: the outcome the server gives to each GET attempt
    fetch_out,     \* get_json: what the call returned (NotCalled before the call)
    pg_total,      \* 01: number of items the catalogue holds (N)
    pg_size,       \* 01: page size the server serves (P)
    datasets,      \* 01: get_all_datasets.datasets
    offset,        \* 01: get_all_datasets.offset
    requests,      \* 01: offsets of the GETs issued so far, in order
    responses,     \* 01: what each of these GETs met: "ok" or "error"
    pg_pc,         \* 01: "loop", "returned" or "raised"
    res_in,        \* resolver: dataset_id's server data, preferred edition, failures
    res_out,       \* resolver: results of the three resolvers
    obs_in,        \* observations: the server's answer to the observations GET
    obs_out,       \* observations: results of the two fetchers
    series,        \* 04 main: SERIES, as (dataset_id, edition) pairs
    i,             \* 04 main: number of series already handled
    pc,            \* 04 main: "resolve", "download" or "done"
    edition_cache, \* 04 main: edition_cache
    edition_url,   \* 04 main: edition_url of the series being handled
    metadata,      \* 04 main: metadata
    errors,        \* 04 main: errors
    calls,         \* 04 main: log of the get_json calls issued, in order
    dimensions,    \* 02: the dimensions the version holds on the server
    all_dimensions,\* 02: explore_dimensions.all_dimensions
    printed,       \* 02: the (name, total) pairs of the printed summaries
    dim_k,         \* 02: number of dimensions already explored
    dim_pc         \* 02: "start", "loop", "returned" or "raised"

vars == <<fetch_in, fetch_out, pg_total, pg_size, datasets, offset, requests,
          responses, pg_pc, res_in, res_out, obs_in, obs_out, series, i, pc,
          edition_cache, edition_url, metadata, errors, calls,
          dimensions, all_dimensions, printed, dim_k, dim_pc>>

fetchVars == <<fetch_in, fetch_out>>
pageVars  == <<pg_total, pg_size, datasets, offset, requests, responses, pg_pc>>
resVars   == <<res_in, res_out>>
obsVars   == <<obs_in, obs_out>>
mainVars  == <<series, i, pc, edition_cache, edition_url, metadata, errors, calls>>
dimVars   == <<dimensions, all_dimensions, printed, dim_k, dim_pc>>

\* ----------------------------------------------------------------------
\* Values
\* ----------------------------------------------------------------------

\* Python None as a JSON value / as the result of get_json
None == [kind |-> "None"]

\* Python None as a link (href) value
NoHref == "None"

\* a component that has not been called in the specification at hand
NotCalled == [kind |-> "NotCalled"]

Min(a, b) == IF a <= b THEN a ELSE b

Range(s) == {s[j] : j \in 1..Len(s)}

\* sequences over S of length at most n
SeqsUpTo(S, n) == UNION {[1..m -> S] : m \in 0..n}

\* ----------------------------------------------------------------------
\* get_json (04_batch_download.py)
\* ----------------------------------------------------------------------

\* number of server outcomes drawn per call; one more than the retry cap, so
\* that an attempt beyond the cap would be visible
MaxAttempts == 4

\* the default of the parameter `retries`
DefaultRetries == 3

\* the exceptions requests.get / raise_for_status / r.json can raise
Exceptions == {"ConnectionError", "HTTPError", "JSONDecodeError"}

Err(e) == [kind |-> "error", exc |-> e]

IsError(o) == o.kind = "error"

\* bodies used where only the identity of the body matters
PlainBodies == {[kind |-> "json", id |-> b] : b \in {"a", "b"}}

\* the for-loop of get_json from iteration `attempt` on; outs[attempt + 1] is
\* what the GET of that iteration does. The result records what was returned,
\* how many GETs were issued, the sleeps taken and whether an exception left
\* the function.
RECURSIVE get_json_loop(_, _, _, _)
get_json_loop(outs, retries, attempt, slept) ==
    IF attempt >= retries
    THEN [result |-> None, attempts |-> attempt, slept |-> slept,
          raised |-> FALSE, last_error |-> NoHref]
    ELSE IF ~IsError(outs[attempt + 1])
    THEN [result |-> outs[attempt + 1], attempts |-> attempt + 1,
          slept |-> slept, raised |-> FALSE, last_error |-> NoHref]
    ELSE IF attempt < retries - 1
    THEN get_json_loop(outs, retries, attempt + 1, Append(slept, 2 ^ attempt))
    ELSE [result |-> None, attempts |-> attempt + 1, slept |-> slept,
          raised |-> FALSE, last_error |-> outs[attempt + 1].exc]

\* get_json with one attempt too many
get_json_full_m(outs) == get_json_loop(outs, DefaultRetries + 1, 0, <<>>)

\* get_json sleeping after its last failed attempt too
get_json_full_s(outs) ==
    LET r == get_json_loop(outs, DefaultRetries, 0, <<>>) IN
    IF r.result = None
    THEN [r EXCEPT !.slept = Append(@, 2 ^ (r.attempts - 1))]
    ELSE r

get_json_full(outs) == get_json_loop(outs, DefaultRetries, 0, <<>>)

\* the value get_json returns
get_json(outs) == get_json_full(outs).result

\* a server that fails the first k attempts of a call and then answers body
FailThenOk(k, body) ==
    [j \in 1..MaxAttempts |-> IF j <= k THEN Err("ConnectionError") ELSE body]

\* ----------------------------------------------------------------------
\* get_all_datasets (01_list_datasets.py)
\* ----------------------------------------------------------------------

\* largest catalogue and largest server page size explored
MaxItems == 6
MaxPage == 3

\* `limit`, the page size the client asks for
limit == 50

\* the server's answer to GET datasets?offset=off&limit=lim: the items of
\* the catalogue (numbered 1..pg_total) from position off on, at most one
\* page of them
ServerPage(off, lim) ==
    [j \in 1..Min(Min(lim, pg_size), pg_total - off) |-> off + j]

\* GetPage advancing the offset by the page size asked for
GetPage_m ==
    /\ pg_pc = "loop"
    /\ LET items == ServerPage(offset, limit) IN
         /\ requests' = Append(requests, offset)
         /\ responses' = Append(responses, "ok")
         /\ IF items = <<>>
            THEN /\ pg_pc' = "returned"
                 /\ UNCHANGED <<datasets, offset>>
            ELSE /\ datasets' = datasets \o items
                 /\ offset' = offset + limit
                 /\ pg_pc' = "loop"
    /\ UNCHANGED <<pg_total, pg_size>>
    /\ UNCHANGED <<fetchVars, resVars, obsVars, mainVars, dimVars>>

\* GetPage stopping at a page shorter than the page size asked for
GetPage_short ==
    /\ pg_pc = "loop"
    /\ LET items == ServerPage(offset, limit) IN
         /\ requests' = Append(requests, offset)
         /\ responses' = Append(responses, "ok")
         /\ datasets' = datasets \o items
         /\ offset' = offset + Len(items)
         /\ pg_pc' = IF Len(items) < limit THEN "returned" ELSE "loop"
    /\ UNCHANGED <<pg_total, pg_size>>
    /\ UNCHANGED <<fetchVars, resVars, obsVars, mainVars, dimVars>>

\* one iteration of the while-loop whose GET succeeds
GetPage ==
    /\ pg_pc = "loop"
    /\ LET items == ServerPage(offset, limit) IN
         /\ requests' = Append(requests, offset)
         /\ responses' = Append(responses, "ok")
         /\ IF items = <<>>
            THEN /\ pg_pc' = "returned"
                 /\ UNCHANGED <<datasets, offset>>
            ELSE /\ datasets' = datasets \o items
                 /\ offset' = offset + Len(items)
                 /\ pg_pc' = "loop"
    /\ UNCHANGED <<pg_total, pg_size>>
    /\ UNCHANGED <<fetchVars, resVars, obsVars, mainVars, dimVars>>

\* GetPageFails taking the failed page for the end of the listing
GetPageFails_m ==
    /\ pg_pc = "loop"
    /\ requests' = Append(requests, offset)
    /\ responses' = Append(responses, "error")
    /\ pg_pc' = "returned"
    /\ UNCHANGED <<pg_total, pg_size, datasets, offset>>
    /\ UNCHANGED <<fetchVars, resVars, obsVars, mainVars, dimVars>>

\* one iteration whose GET fails: raise_for_status (or requests.get) raises
\* and the exception leaves get_all_datasets
GetPageFails ==
    /\ pg_pc = "loop"
    /\ requests' = Append(requests, offset)
    /\ responses' = Append(responses, "error")
    /\ pg_pc' = "raised"
    /\ UNCHANGED <<pg_total, pg_size, datasets, offset>>
    /\ UNCHANGED <<fetchVars, resVars, obsVars, mainVars, dimVars>>

\* ----------------------------------------------------------------------
\* get_edition_url (04, 03) and get_latest_version_url (02)
\* ----------------------------------------------------------------------

\* longest editions listing explored
MaxEditions == 2

EditionNames == {"time-series", "PWT24"}

\* href values: absent (None), the empty string, or a URL
DatasetHrefs == {NoHref, "", "v0"}
EditionHrefs == {NoHref, "", "v1", "v2"}

IsUrl(h) == h \notin {NoHref, ""}

\* GET datasets/{id}: links.latest_version.href and links.editions.href
DatasetBodies ==
    [kind : {"json"}, latest : DatasetHrefs, editions : {NoHref, "e"}]

\* one item of an editions listing: edition and links.latest_version.href
EditionItems == [edition : EditionNames, href : EditionHrefs]

\* GET {editions_href}
EditionsBodies ==
    [kind : {"json"}, items : SeqsUpTo(EditionItems, MaxEditions)]

\* `not x` for the result of get_json: None fails the test. (An empty JSON
\* object would fail it too; it has no links and no items, and the code
\* returns for it what it returns for any body without them.)
Falsy(x) == x = None

\* FirstMatch letting the last matching item win
FirstMatch_m(items, name) ==
    IF \E j \in 1..Len(items) : items[j].edition = name
    THEN CHOOSE j \in 1..Len(items) :
            /\ items[j].edition = name
            /\ \A m \in (j + 1)..Len(items) : items[m].edition # name
    ELSE 0

\* index of the first item of items whose edition is name, 0 if none
FirstMatch(items, name) ==
    IF \E j \in 1..Len(items) : items[j].edition = name
    THEN CHOOSE j \in 1..Len(items) :
            /\ items[j].edition = name
            /\ \A m \in 1..(j - 1) : items[m].edition # name
    ELSE 0

\* get_edition_url giving up when the dataset has no editions link or the
\* listing holds no match
get_edition_url_run_m(ds_outs, ed_outs, preferred_edition) ==
    LET data == get_json(ds_outs) IN
    IF Falsy(data) \/ ~IsUrl(data.editions)
    THEN [url |-> NoHref, calls |-> <<"dataset">>]
    ELSE
    LET editions == get_json(ed_outs) IN
    IF Falsy(editions)
    THEN [url |-> data.latest, calls |-> <<"dataset", "editions">>]
    ELSE
    LET m == FirstMatch(editions.items, preferred_edition) IN
    IF m # 0
    THEN [url |-> editions.items[m].href, calls |-> <<"dataset", "editions">>]
    ELSE [url |-> NoHref, calls |-> <<"dataset", "editions">>]

\* 04: get_edition_url, with the get_json calls it issued
get_edition_url_run(ds_outs, ed_outs, preferred_edition) ==
    LET data == get_json(ds_outs) IN
    IF Falsy(data)
    THEN [url |-> NoHref, calls |-> <<"dataset">>]
    ELSE
    LET fallback == data.latest
        editions_url == data.editions
    IN
    IF ~IsUrl(editions_url)
    THEN [url |-> fallback, calls |-> <<"dataset">>]
    ELSE
    LET editions == get_json(ed_outs) IN
    IF Falsy(editions)
    THEN [url |-> fallback, calls |-> <<"dataset", "editions">>]
    ELSE
    LET m == FirstMatch(editions.items, preferred_edition) IN
    IF m # 0
    THEN [url |-> editions.items[m].href, calls |-> <<"dataset", "editions">>]
    ELSE [url |-> fallback, calls |-> <<"dataset", "editions">>]

get_edition_url(ds_outs, ed_outs, preferred_edition) ==
    get_edition_url_run(ds_outs, ed_outs, preferred_edition).url

Returned(h) == [url |-> h, raised |-> "no"]
Raised(e) == [url |-> NoHref, raised |-> e]

\* 03: get_edition_url; requests.get is called once per URL, without retry,
\* and an error raises. item["links"]["latest_version"]["href"] raises
\* KeyError when the link is absent.
get_edition_url_03(ds_outs, ed_outs, preferred_edition) ==
    IF IsError(ds_outs[1]) THEN Raised(ds_outs[1].exc)
    ELSE
    LET data == ds_outs[1]
        fallback_url == data.latest
        editions_url == data.editions
    IN
    IF ~IsUrl(editions_url) THEN Returned(fallback_url)
    ELSE IF IsError(ed_outs[1]) THEN Raised(ed_outs[1].exc)
    ELSE
    LET m == FirstMatch(ed_outs[1].items, preferred_edition) IN
    IF m # 0
    THEN IF ed_outs[1].items[m].href = NoHref
         THEN Raised("KeyError")
         ELSE Returned(ed_outs[1].items[m].href)
    ELSE Returned(fallback_url)

\* 02: get_latest_version_url; the preferred edition is always "time-series"
get_latest_version_url(ds_outs, ed_outs) ==
    IF IsError(ds_outs[1]) THEN Raised(ds_outs[1].exc)
    ELSE
    LET data == ds_outs[1]
        editions_url == data.editions
    IN
    IF IsUrl(editions_url)
    THEN IF IsError(ed_outs[1]) THEN Raised(ed_outs[1].exc)
         ELSE
         LET editions == ed_outs[1].items
             m == FirstMatch(editions, "time-series")
         IN
         IF m # 0
         THEN IF editions[m].href = NoHref
              THEN Raised("KeyError")
              ELSE Returned(editions[m].href)
         ELSE IF editions # <<>>
         THEN IF editions[Len(editions)].href = NoHref
              THEN Raised("KeyError")
              ELSE Returned(editions[Len(editions)].href)
         ELSE Returned(data.latest)
    ELSE Returned(data.latest)

\* ----------------------------------------------------------------------
\* get_observations (04) and download_observations (03)
\* ----------------------------------------------------------------------

\* longest observations list explored
MaxObs == 3

\* A period label. fmt = "b-y" is a text of the form Mon-YY (mon the month
\* abbreviation, yr the two digits); any other text has fmt = "text". mixed
\* is what pandas' permissive parser (format="mixed") makes of the text: a
\* month count, or NaT.
NaT == [nat |-> TRUE, ym |-> 0]
Timestamp(year, month) == [nat |-> FALSE, ym |-> year * 12 + (month - 1)]

MonthNum ==
    [m \in {"Jan", "Feb", "Mar", "Apr", "May", "Jun",
            "Jul", "Aug", "Sep", "Oct", "Nov", "Dec"} |->
        CASE m = "Jan" -> 1 [] m = "Feb" -> 2 [] m = "Mar" -> 3
          [] m = "Apr" -> 4 [] m = "May" -> 5 [] m = "Jun" -> 6
          [] m = "Jul" -> 7 [] m = "Aug" -> 8 [] m = "Sep" -> 9
          [] m = "Oct" -> 10 [] m = "Nov" -> 11 [] m = "Dec" -> 12]

MonYY(m, y, mx) == [fmt |-> "b-y", mon |-> m, yr |-> y, mixed |-> mx]
Text(t, mx) == [fmt |-> "text", mon |-> t, yr |-> 0, mixed |-> mx]

\* the label .get("label", "") gives when the key is absent
EmptyLabel == Text("", NaT)

\* pd.to_datetime(s, format="%b-%y") of one label: %y maps 00..68 to
\* 2000..2068 and 69..99 to 1969..1999; any other text raises (NaT here)
strptime_b_y(s) ==
    IF s.fmt = "b-y"
    THEN Timestamp(IF s.yr <= 68 THEN 2000 + s.yr ELSE 1900 + s.yr, MonthNum[s.mon])
    ELSE NaT

\* pd.to_datetime(s, format="mixed", dayfirst=False) of one label
to_datetime_mixed(s) == s.mixed

\* 04: parse_period
parse_period(s) ==
    IF ~strptime_b_y(s).nat THEN strptime_b_y(s) ELSE to_datetime_mixed(s)

\* 04: the try-block of parse_period that gave the result for s
parse_period_by(s) ==
    IF ~strptime_b_y(s).nat THEN "primary"
    ELSE IF ~to_datetime_mixed(s).nat THEN "mixed"
    ELSE "none"

\* a period id is a string, modelled as its sequence of character codes
RECURSIVE LexLess(_, _)
LexLess(a, b) ==
    IF b = <<>> THEN FALSE
    ELSE IF a = <<>> THEN TRUE
    ELSE IF Head(a) # Head(b) THEN Head(a) < Head(b)
    ELSE LexLess(Tail(a), Tail(b))

\* TimeLE of a descending sort
TimeLE_m(a, b) == IF a.nat THEN b.nat ELSE (b.nat \/ b.ym <= a.ym)

\* order of sort_values on a datetime column: NaT last
TimeLE(a, b) == IF a.nat THEN b.nat ELSE (b.nat \/ a.ym <= b.ym)

\* order of sort_values on the period column
PeriodLE(a, b) == a = b \/ LexLess(a, b)

\* the frames sort_values("_sort") can give for rows whose _sort column is
\* keys: every arrangement that is sorted (the default sort kind is not
\* stable, so rows of equal key come out in any order)
SortValuesTime(rows, keys) ==
    {[j \in 1..Len(rows) |-> rows[p[j]]] :
        p \in {q \in Permutations(1..Len(rows)) :
                 \A a, b \in 1..Len(rows) :
                    a < b => TimeLE(keys[q[a]], keys[q[b]])}}

\* sort_values("period") whose result is dropped
SortValuesPeriod_m(rows) == {rows}

\* the frames sort_values("period") can give for rows
SortValuesPeriod(rows) ==
    {[j \in 1..Len(rows) |-> rows[p[j]]] :
        p \in {q \in Permutations(1..Len(rows)) :
                 \A a, b \in 1..Len(rows) :
                    a < b => PeriodLE(rows[q[a]].period, rows[q[b]].period)}}

\* raw "observation" values, and pd.to_numeric(errors="coerce") on them
NaN == [nan |-> TRUE, num |-> 0]
RawValues == {"15", "n/a"}
to_numeric(v) == IF v = "15" THEN [nan |-> FALSE, num |-> 15] ELSE NaN

\* the value of one key of obs["dimensions"]
Absent == [kind |-> "absent"]
EmptyObj == [kind |-> "empty"]
TimeObj(id, label) == [kind |-> "obj", id |-> id, label |-> label]

\* truth value of `x` for such a value: None and {} are false
Truthy(x) == x.kind = "obj"

\* time_dim looking under "Time" only
time_dim_m(obs) == obs.Time

\* obs.get("dimensions", {}).get("Time") or obs.get("dimensions", {}).get("time")
time_dim(obs) == IF Truthy(obs.Time) THEN obs.Time ELSE obs.time

\* the for-loop building `rows`
RECURSIVE build_rows(_)
build_rows(observations) ==
    IF observations = <<>> THEN <<>>
    ELSE LET obs == Head(observations) IN
         IF ~Truthy(time_dim(obs))
         THEN build_rows(Tail(observations))
         ELSE <<[period |-> time_dim(obs).id,
                 period_label |-> time_dim(obs).label,
                 value |-> obs.observation]>>
              \o build_rows(Tail(observations))

\* coerce_values dropping the rows whose value is not a number
coerce_values_m(rows) ==
    SelectSeq([j \in 1..Len(rows) |-> [rows[j] EXCEPT !.value = to_numeric(@)]],
              LAMBDA r : ~r.value.nan)

\* df["value"] = pd.to_numeric(df["value"], errors="coerce")
coerce_values(rows) ==
    [j \in 1..Len(rows) |-> [rows[j] EXCEPT !.value = to_numeric(@)]]

\* 04: df["period_label"].apply(parse_period)
ParsedLabels(df) == [j \in 1..Len(df) |-> parse_period(df[j].period_label)]

\* 03: pd.to_datetime(df["period_label"], format="%b-%y"), where it does
\* not raise
PrimaryLabels(df) == [j \in 1..Len(df) |-> strptime_b_y(df[j].period_label)]

\* 03: pd.to_datetime(df["period_label"], format="mixed", errors="coerce")
MixedLabels(df) == [j \in 1..Len(df) |-> to_datetime_mixed(df[j].period_label)]

\* parsed.notna().any()
NotnaAny(parsed) == \E j \in 1..Len(parsed) : ~parsed[j].nat

\* 04: the part of get_observations after `rows` is built
sort_frame_04(rows) ==
    IF rows = <<>> THEN {<<>>}
    ELSE LET df == coerce_values(rows) IN
         IF NotnaAny(ParsedLabels(df))
         THEN SortValuesTime(df, ParsedLabels(df))
         ELSE SortValuesPeriod(df)

\* 04: the frames get_observations can return
get_observations(obs_outs) ==
    LET data == get_json(obs_outs) IN
    IF Falsy(data) THEN {<<>>}
    ELSE sort_frame_04(build_rows(data.observations))

\* 03: the part of download_observations after `rows` is built
sort_frame_03(rows) ==
    IF rows = <<>> THEN {<<>>}
    ELSE LET df == coerce_values(rows) IN
         IF \A j \in 1..Len(df) : ~PrimaryLabels(df)[j].nat
         THEN SortValuesTime(df, PrimaryLabels(df))
         ELSE IF NotnaAny(MixedLabels(df))
         THEN SortValuesTime(df, MixedLabels(df))
         ELSE SortValuesPeriod(df)

\* 03: the outcomes of download_observations: a frame, or an exception
download_observations(obs_outs) ==
    IF IsError(obs_outs[1])
    THEN {[df |-> <<>>, raised |-> obs_outs[1].exc]}
    ELSE {[df |-> d, raised |-> "no"] :
            d \in sort_frame_03(build_rows(obs_outs[1].observations))}

\* ----------------------------------------------------------------------
\* Inputs of the observation fetchers
\* ----------------------------------------------------------------------

Jan24 == MonYY("Jan", 24, NaT)
Dec23 == MonYY("Dec", 23, NaT)

\* temporal sub-objects: {id, label}
TimeObjs == {TimeObj(<<1>>, Jan24), TimeObj(<<2>>, Dec23)}

Obs(T, t, TT, v) == [Time |-> T, time |-> t, TIME |-> TT, observation |-> v]

\* observations by the keys their "dimensions" carry
Observations ==
    UNION {
        {Obs(o, Absent, Absent, v),       \* "Time"
         Obs(Absent, o, Absent, v),       \* "time"
         Obs(Absent, Absent, o, v),       \* "TIME"
         Obs(Absent, Absent, Absent, v),  \* no temporal key
         Obs(EmptyObj, o, Absent, v)}     \* "Time": {} and "time"
        \cup {Obs(o, o2, Absent, v) : o2 \in TimeObjs \ {o}}  \* both
        : o \in TimeObjs, v \in RawValues}

\* labels and period ids of the series whose ordering is explored: Mon-YY
\* labels on both sides of the %y pivot, a text only the permissive parser
\* reads ("2023-06"), and two texts no parser reads
Feb24 == MonYY("Feb", 24, NaT)
Jan99 == MonYY("Jan", 99, NaT)
Iso2306 == Text("2023-06", Timestamp(2023, 6))
Unparseable == Text("n/a", NaT)
SortLabels == {Jan24, Dec23, Feb24, Jan99, Iso2306, Unparseable, EmptyLabel}
SortIds == {<<1>>, <<2>>, <<1, 2>>}

\* observations of such a series: "time"-keyed, numeric
SortObservations ==
    {Obs(Absent, TimeObj(id, l), Absent, "15") : id \in SortIds, l \in SortLabels}

SortBodies ==
    [kind : {"json"}, observations : SeqsUpTo(SortObservations, MaxObs)]

\* GET {version_url}/observations
ObsBodies == [kind : {"json"}, observations : SeqsUpTo(Observations, MaxObs)]

\* ----------------------------------------------------------------------
\* main (04_batch_download.py)
\* ----------------------------------------------------------------------

\* longest SERIES list explored
MaxSeries == 3

\* entries of SERIES: (dataset_id, edition); label, file name and
\* dimension overrides are identified with the position in the list
SeriesEntries ==
    {<<"gdp", NoHref>>, <<"gdp", "time-series">>, <<"labour-market", "PWT24">>}

\* edition or "time-series"
OrDefault(edition) == IF edition \in {NoHref, ""} THEN "time-series" ELSE edition

\* cache_key without the default edition
cache_key_m(entry) == <<entry[1], entry[2]>>

cache_key(entry) == <<entry[1], OrDefault(entry[2])>>

\* server data the batch run can meet
MainDatasetBodies == {b \in DatasetBodies : b.latest # ""}
MainEditionsBodies ==
    {b \in EditionsBodies : \A j \in 1..Len(b.items) : b.items[j].href \in {NoHref, "v1"}}
MainObsBodies ==
    {[kind |-> "json", observations |-> l] :
        l \in {<<>>, <<Obs(Absent, Absent, Absent, "15")>>}
               \cup {<<Obs(Absent, o, Absent, "15")>> : o \in TimeObjs}}

\* failures before the first answer of one call: none, or all attempts
MainFails == {0, MaxAttempts}

\* NextSeries leaving the for-loop after any iteration
NextSeries_m ==
    /\ i' = i + 1
    /\ pc' = "done"

\* the end of one iteration of the for-loop
NextSeries ==
    /\ i' = i + 1
    /\ pc' = IF i + 1 = Len(series) THEN "done" ELSE "resolve"

\* Resolve storing in the cache whatever get_edition_url returned
Resolve_m ==
    /\ pc = "resolve"
    /\ LET dataset_id == series[i + 1][1]
           edition == series[i + 1][2]
           key == cache_key(series[i + 1])
       IN
       IF key \notin DOMAIN edition_cache
       THEN \E ds \in MainDatasetBodies, eds \in MainEditionsBodies,
               kd \in MainFails, ke \in MainFails :
              LET run == get_edition_url_run(FailThenOk(kd, ds),
                                             FailThenOk(ke, eds), OrDefault(edition))
              IN
              /\ calls' = calls \o [j \in 1..Len(run.calls) |->
                                       <<dataset_id, OrDefault(edition), run.calls[j]>>]
              /\ IF ~IsUrl(run.url)
                 THEN /\ errors' = Append(errors,
                              [idx |-> i + 1, msg |-> "Could not resolve edition"])
                      /\ NextSeries
                      /\ edition_cache' =
                              [k \in DOMAIN edition_cache \cup {key} |->
                                  IF k = key THEN run.url ELSE edition_cache[k]]
                      /\ UNCHANGED edition_url
                 ELSE /\ edition_cache' =
                              [k \in DOMAIN edition_cache \cup {key} |->
                                  IF k = key THEN run.url ELSE edition_cache[k]]
                      /\ edition_url' = run.url
                      /\ pc' = "download"
                      /\ UNCHANGED <<i, errors>>
       ELSE /\ edition_url' = edition_cache[key]
            /\ pc' = "download"
            /\ UNCHANGED <<i, errors, edition_cache, calls>>
    /\ UNCHANGED <<series, metadata>>
    /\ UNCHANGED <<fetchVars, pageVars, resVars, obsVars, dimVars>>

\* lines 215-224: resolve the edition URL of series i + 1, through the cache
Resolve ==
    /\ pc = "resolve"
    /\ LET dataset_id == series[i + 1][1]
           edition == series[i + 1][2]
           key == cache_key(series[i + 1])
       IN
       IF key \notin DOMAIN edition_cache
       THEN \E ds \in MainDatasetBodies, eds \in MainEditionsBodies,
               kd \in MainFails, ke \in MainFails :
              LET run == get_edition_url_run(FailThenOk(kd, ds),
                                             FailThenOk(ke, eds), OrDefault(edition))
              IN
              /\ calls' = calls \o [j \in 1..Len(run.calls) |->
                                       <<dataset_id, OrDefault(edition), run.calls[j]>>]
              /\ IF ~IsUrl(run.url)
                 THEN /\ errors' = Append(errors,
                              [idx |-> i + 1, msg |-> "Could not resolve edition"])
                      /\ NextSeries
                      /\ UNCHANGED <<edition_cache, edition_url>>
                 ELSE /\ edition_cache' =
                              [k \in DOMAIN edition_cache \cup {key} |->
                                  IF k = key THEN run.url ELSE edition_cache[k]]
                      /\ edition_url' = run.url
                      /\ pc' = "download"
                      /\ UNCHANGED <<i, errors>>
       ELSE /\ edition_url' = edition_cache[key]
            /\ pc' = "download"
            /\ UNCHANGED <<i, errors, edition_cache, calls>>
    /\ UNCHANGED <<series, metadata>>
    /\ UNCHANGED <<fetchVars, pageVars, resVars, obsVars, dimVars>>

\* lines 226-252: download, check and record series i + 1
Download ==
    /\ pc = "download"
    /\ \E body \in MainObsBodies, ko \in MainFails :
         \E df \in get_observations(FailThenOk(ko, body)) :
            /\ calls' = Append(calls, <<series[i + 1][1], edition_url, "observations">>)
            /\ IF df = <<>>
               THEN /\ errors' = Append(errors,
                            [idx |-> i + 1, msg |-> "No observations returned"])
                    /\ UNCHANGED metadata
               ELSE /\ metadata' = Append(metadata,
                            [idx |-> i + 1, edition_url |-> edition_url,
                             obs_count |-> Len(df),
                             period_start |-> df[1].period,
                             period_end |-> df[Len(df)].period])
                    /\ UNCHANGED errors
    /\ NextSeries
    /\ UNCHANGED <<series, edition_cache, edition_url>>
    /\ UNCHANGED <<fetchVars, pageVars, resVars, obsVars, dimVars>>

\* ----------------------------------------------------------------------
\* explore_dimensions (02_explore_dimensions.py)
\* ----------------------------------------------------------------------

MaxDims == 2

\* params={"limit": 200} of the options request
options_limit == 200

DimNames == {"time", "geography", "aggregate"}

\* what the server holds for one dimension: its name, the number of its
\* options, and whether the options response declares "total_count"
DimEntries ==
    [name : DimNames,
     size : {0, 1, options_limit, options_limit + 1},
     declares : BOOLEAN]

\* the "items" of the options response: the first lim options of the
\* dimension, option j carrying the label of code j
OptionItems(size, lim) ==
    [j \in 1..(IF size < lim THEN size ELSE lim) |-> [option |-> j, label |-> j]]

\* lines 93-95: the option -> label dictionary built from the items
OptionsDict(items) ==
    [o \in {items[j].option : j \in 1..Len(items)} |->
        items[CHOOSE j \in 1..Len(items) :
                 /\ items[j].option = o
                 /\ \A h \in (j + 1)..Len(items) : items[h].option # o].label]

\* line 97: opts_data.get("total_count", len(options))
TotalOf(dim, options) ==
    IF dim.declares THEN dim.size ELSE Cardinality(DOMAIN options)

\* lines 74-78: the dimensions listing is fetched; with no dimension the
\* loop body never runs and the empty dictionary is returned
GetDimensions ==
    /\ dim_pc = "start"
    /\ dim_pc' = IF dimensions = <<>> THEN "returned" ELSE "loop"
    /\ UNCHANGED <<dimensions, all_dimensions, printed, dim_k>>
    /\ UNCHANGED <<fetchVars, pageVars, resVars, obsVars, mainVars>>

\* lines 74-75: the GET of the listing fails and raise_for_status raises
GetDimensionsFails ==
    /\ dim_pc = "start"
    /\ dim_pc' = "raised"
    /\ UNCHANGED <<dimensions, all_dimensions, printed, dim_k>>
    /\ UNCHANGED <<fetchVars, pageVars, resVars, obsVars, mainVars>>

\* lines 80-108: one iteration of the for-loop; after the last dimension
\* line 110 returns all_dimensions
GetOptions ==
    /\ dim_pc = "loop"
    /\ LET dim == dimensions[dim_k + 1]
           options == OptionsDict(OptionItems(dim.size, options_limit))
           total == TotalOf(dim, options)
       IN
       /\ all_dimensions' =
             [n \in DOMAIN all_dimensions \cup {dim.name} |->
                 IF n = dim.name THEN options ELSE all_dimensions[n]]
       /\ printed' = Append(printed, [name |-> dim.name, total |-> total])
    /\ dim_k' = dim_k + 1
    /\ dim_pc' = IF dim_k + 1 = Len(dimensions) THEN "returned" ELSE "loop"
    /\ UNCHANGED dimensions
    /\ UNCHANGED <<fetchVars, pageVars, resVars, obsVars, mainVars>>

\* lines 86-90: the GET of the options fails and raise_for_status raises
GetOptionsFails ==
    /\ dim_pc = "loop"
    /\ dim_pc' = "raised"
    /\ UNCHANGED <<dimensions, all_dimensions, printed, dim_k>>
    /\ UNCHANGED <<fetchVars, pageVars, resVars, obsVars, mainVars>>

\* ----------------------------------------------------------------------
\* Calls of the pure functions
\* ----------------------------------------------------------------------

Outcomes == {Err(e) : e \in Exceptions} \cup PlainBodies

CallGetJson ==
    /\ fetch_out = NotCalled
    /\ fetch_out' = get_json_full(fetch_in)
    /\ UNCHANGED <<fetch_in, pageVars, resVars, obsVars, mainVars, dimVars>>

CallResolvers ==
    /\ res_out = NotCalled
    /\ res_out' =
          [kind |-> "results",
           r04 |-> get_edition_url_run(res_in.ds_outs, res_in.ed_outs, res_in.preferred),
           r03 |-> get_edition_url_03(res_in.ds_outs, res_in.ed_outs, res_in.preferred),
           r02 |-> get_latest_version_url(res_in.ds_outs, res_in.ed_outs)]
    /\ UNCHANGED <<res_in, fetchVars, pageVars, obsVars, mainVars, dimVars>>

CallFetchers ==
    /\ obs_out = NotCalled
    /\ \E d04 \in get_observations(obs_in), d03 \in download_observations(obs_in) :
          obs_out' = [kind |-> "results", r04 |-> d04, r03 |-> d03]
    /\ UNCHANGED <<obs_in, fetchVars, pageVars, resVars, mainVars, dimVars>>

\* ----------------------------------------------------------------------
\* Specifications
\* ----------------------------------------------------------------------

IdleFetch == fetch_in = <<>> /\ fetch_out = NotCalled
IdlePage ==
    /\ pg_total = 0 /\ pg_size = 1 /\ datasets = <<>> /\ offset = 0
    /\ requests = <<>> /\ responses = <<>> /\ pg_pc = "idle"
IdleRes == res_in = NotCalled /\ res_out = NotCalled
IdleObs == obs_in = <<>> /\ obs_out = NotCalled
IdleMain ==
    /\ series = <<>> /\ i = 0 /\ pc = "idle" /\ edition_cache = <<>>
    /\ edition_url = NoHref /\ metadata = <<>> /\ errors = <<>> /\ calls = <<>>

IdleDims ==
    /\ dimensions = <<>> /\ all_dimensions = <<>> /\ printed = <<>>
    /\ dim_k = 0 /\ dim_pc = "idle"

\* get_json called on every sequence of attempt outcomes
InitFetch ==
    /\ fetch_in \in [1..MaxAttempts -> Outcomes]
    /\ fetch_out = NotCalled
    /\ IdlePage /\ IdleRes /\ IdleObs /\ IdleMain /\ IdleDims

SpecFetch == InitFetch /\ [][CallGetJson]_vars

\* get_all_datasets run against every catalogue
InitPage ==
    /\ pg_total \in 0..MaxItems
    /\ pg_size \in 1..MaxPage
    /\ datasets = <<>> /\ offset = 0 /\ requests = <<>> /\ responses = <<>>
    /\ pg_pc = "loop"
    /\ IdleFetch /\ IdleRes /\ IdleObs /\ IdleMain /\ IdleDims

NextPage == GetPage \/ GetPageFails

SpecPage == InitPage /\ [][NextPage]_vars

\* the resolvers called on every dataset, listing and failure pattern
InitResolve ==
    /\ \E ds \in DatasetBodies, eds \in EditionsBodies, p \in EditionNames,
          kd \in 0..MaxAttempts, ke \in 0..MaxAttempts :
          res_in = [kind |-> "input", ds |-> ds, eds |-> eds, preferred |-> p,
                    kd |-> kd, ke |-> ke,
                    ds_outs |-> FailThenOk(kd, ds), ed_outs |-> FailThenOk(ke, eds)]
    /\ res_out = NotCalled
    /\ IdleFetch /\ IdlePage /\ IdleObs /\ IdleMain /\ IdleDims

SpecResolve == InitResolve /\ [][CallResolvers]_vars

\* the fetchers called on every observations response and failure pattern
InitObs ==
    /\ \E body \in ObsBodies, ko \in 0..MaxAttempts : obs_in = FailThenOk(ko, body)
    /\ obs_out = NotCalled
    /\ IdleFetch /\ IdlePage /\ IdleRes /\ IdleMain /\ IdleDims

SpecObs == InitObs /\ [][CallFetchers]_vars

\* the fetchers called on every series of labelled periods, answered at once
InitSort ==
    /\ \E body \in SortBodies : obs_in = FailThenOk(0, body)
    /\ obs_out = NotCalled
    /\ IdleFetch /\ IdlePage /\ IdleRes /\ IdleMain /\ IdleDims

SpecSort == InitSort /\ [][CallFetchers]_vars

\* the batch run over every SERIES list
InitMain ==
    /\ series \in SeqsUpTo(SeriesEntries, MaxSeries)
    /\ i = 0
    /\ pc = IF series = <<>> THEN "done" ELSE "resolve"
    /\ edition_cache = <<>> /\ edition_url = NoHref
    /\ metadata = <<>> /\ errors = <<>> /\ calls = <<>>
    /\ IdleFetch /\ IdlePage /\ IdleRes /\ IdleObs /\ IdleDims

NextMain == Resolve \/ Download

SpecMain == InitMain /\ [][NextMain]_vars

\* explore_dimensions run on every version whose dimensions bear distinct
\* names
InitDims ==
    /\ dimensions \in SeqsUpTo(DimEntries, MaxDims)
    /\ \A a, b \in 1..Len(dimensions) :
          dimensions[a].name = dimensions[b].name => a = b
    /\ all_dimensions = <<>> /\ printed = <<>> /\ dim_k = 0 /\ dim_pc = "start"
    /\ IdleFetch /\ IdlePage /\ IdleRes /\ IdleObs /\ IdleMain

NextDims == GetDimensions \/ GetDimensionsFails \/ GetOptions \/ GetOptionsFails

SpecDims == InitDims /\ [][NextDims]_vars

Init == InitMain
Next == NextMain
Spec == SpecMain

\* ----------------------------------------------------------------------
\* Properties
\* ----------------------------------------------------------------------

\* attempts of the call in fetch_in (among the first three) that succeed
SuccessfulAttempts == {j \in 1..3 : ~IsError(fetch_in[j])}

\* C1: get_json issues at most 3 GET attempts; it returns the body of the
\* first successful attempt and issues no attempt after it; when all 3
\* attempts fail it returns None; no exception reaches the caller.
C1_RetryCap ==
    fetch_out # NotCalled =>
        /\ fetch_out.attempts <= 3
        /\ ~fetch_out.raised
        /\ IF SuccessfulAttempts # {}
           THEN LET f == CHOOSE j \in SuccessfulAttempts :
                            \A m \in SuccessfulAttempts : j <= m
                IN /\ fetch_out.result = fetch_in[f]
                   /\ fetch_out.attempts = f
           ELSE /\ fetch_out.result = None
                /\ fetch_out.attempts = 3

\* fail, fail, succeed: the call returned the body of the third attempt
C1_Witness ==
    /\ fetch_out # NotCalled
    /\ IsError(fetch_in[1]) /\ IsError(fetch_in[2]) /\ ~IsError(fetch_in[3])
    /\ fetch_out.result = fetch_in[3]
    /\ fetch_out.attempts = 3

\* C2: a listing of N items served in pages of P, without fetch failure, is
\* collected completely and in order (no item twice, none skipped) with
\* exactly ceil(N/P) + 1 requests, the last being the empty-page probe.
C2_Pagination ==
    pg_pc = "returned" =>
        /\ datasets = [j \in 1..pg_total |-> j]
        /\ Len(requests) = ((pg_total + pg_size - 1) \div pg_size) + 1
        /\ requests[Len(requests)] = pg_total
        /\ \A j \in 1..(Len(requests) - 1) : requests[j] < pg_total

\* 5 items in pages of 2: three full or short pages and the probe
C2_Witness ==
    /\ pg_pc = "returned"
    /\ pg_total = 5 /\ pg_size = 2
    /\ Len(datasets) = 5
    /\ requests = <<0, 2, 4, 5>>

\* what the resolvers were called on
DatasetFetched04 == res_in.kd < 3
EditionsFetched04 == DatasetFetched04 /\ IsUrl(res_in.ds.editions) /\ res_in.ke < 3
DatasetFetched03 == res_in.kd = 0
EditionsFetched03 == DatasetFetched03 /\ IsUrl(res_in.ds.editions) /\ res_in.ke = 0
ListedItems == res_in.eds.items

\* the first position of ListedItems whose edition is name, 0 if none
FirstNamed(name) ==
    IF \E j \in 1..Len(ListedItems) : ListedItems[j].edition = name
    THEN CHOOSE j \in 1..Len(ListedItems) :
            /\ ListedItems[j].edition = name
            /\ \A m \in 1..Len(ListedItems) : ListedItems[m].edition = name => j <= m
    ELSE 0

\* C3: when the fetched editions listing holds an edition named exactly
\* preferred_edition, the result is the latest_version link of the first such
\* edition, wherever it stands and whatever the dataset-level link is (04 for
\* every link value; 03, and 02 for "time-series", when the link is present).
C3_FirstMatchWins ==
    res_out # NotCalled =>
        /\ (EditionsFetched04 /\ FirstNamed(res_in.preferred) # 0) =>
              res_out.r04.url = ListedItems[FirstNamed(res_in.preferred)].href
        /\ (/\ EditionsFetched03 /\ FirstNamed(res_in.preferred) # 0
            /\ ListedItems[FirstNamed(res_in.preferred)].href # NoHref) =>
              res_out.r03 = Returned(ListedItems[FirstNamed(res_in.preferred)].href)
        /\ (/\ EditionsFetched03 /\ FirstNamed("time-series") # 0
            /\ ListedItems[FirstNamed("time-series")].href # NoHref) =>
              res_out.r02 = Returned(ListedItems[FirstNamed("time-series")].href)

\* the preferred edition stands second, after an edition of another name,
\* and its link is returned although the dataset has its own link
C3_Witness ==
    /\ res_out # NotCalled
    /\ EditionsFetched04
    /\ Len(ListedItems) = 2
    /\ ListedItems[1].edition # res_in.preferred
    /\ ListedItems[2].edition = res_in.preferred
    /\ ListedItems[1].href = "v1" /\ ListedItems[2].href = "v2"
    /\ res_in.ds.latest = "v0"
    /\ res_out.r04.url = "v2"

\* C4: when the fetched editions listing is non-empty and holds no edition
\* named preferred_edition, the result is the latest_version link of the
\* last edition listed, not the dataset-level link.
C4_LastEditionFallback ==
    (/\ res_out # NotCalled
     /\ EditionsFetched04
     /\ ListedItems # <<>>
     /\ FirstNamed(res_in.preferred) = 0) =>
        res_out.r04.url = ListedItems[Len(ListedItems)].href

\* C5: when the dataset has no editions link, or its editions listing is
\* empty, the result is the dataset's own latest_version link.
C5_DatasetFallback ==
    res_out # NotCalled =>
        /\ (/\ DatasetFetched04
            /\ \/ ~IsUrl(res_in.ds.editions)
               \/ (EditionsFetched04 /\ ListedItems = <<>>)) =>
              res_out.r04.url = res_in.ds.latest
        /\ (/\ DatasetFetched03
            /\ \/ ~IsUrl(res_in.ds.editions)
               \/ (EditionsFetched03 /\ ListedItems = <<>>)) =>
              /\ res_out.r03 = Returned(res_in.ds.latest)
              /\ res_out.r02 = Returned(res_in.ds.latest)

\* an editions link, an empty listing, and the dataset's link returned
C5_Witness ==
    /\ res_out # NotCalled
    /\ EditionsFetched04
    /\ ListedItems = <<>>
    /\ res_in.ds.latest = "v0"
    /\ res_out.r04.url = "v0"
    /\ res_out.r04.calls = <<"dataset", "editions">>

\* the paths by which a version URL is obtainable
MatchingEditionLink ==
    /\ EditionsFetched04
    /\ FirstNamed(res_in.preferred) # 0
    /\ IsUrl(ListedItems[FirstNamed(res_in.preferred)].href)
LastEditionLink ==
    /\ EditionsFetched04
    /\ ListedItems # <<>>
    /\ IsUrl(ListedItems[Len(ListedItems)].href)
DatasetLevelLink == DatasetFetched04 /\ IsUrl(res_in.ds.latest)

\* C6: the resolution fails (no URL, so main raises and issues no
\* observation query) exactly when no URL is obtainable by any path: no
\* matching edition link, no last-edition link, no dataset-level link.
C6_FailsIffNoPath ==
    res_out # NotCalled =>
        (~IsUrl(res_out.r04.url) <=>
            ~(MatchingEditionLink \/ LastEditionLink \/ DatasetLevelLink))

\* (dataset_id, edition name) of an entry of SERIES
PairOf(entry) ==
    <<entry[1], IF entry[2] \in {NoHref, ""} THEN "time-series" ELSE entry[2]>>

Pairs == {PairOf(series[j]) : j \in 1..Len(series)}

\* number of edition-listing fetches issued for a pair so far
ListingFetches(pair) ==
    Cardinality({j \in 1..Len(calls) : calls[j] = <<pair[1], pair[2], "editions">>})

\* number of series of a pair whose resolution failed so far
FailedResolutions(pair) ==
    Cardinality({j \in 1..Len(errors) :
                    /\ errors[j].msg = "Could not resolve edition"
                    /\ PairOf(series[errors[j].idx]) = pair})

\* number of series of a pair
SeriesOf(pair) == Cardinality({j \in 1..Len(series) : PairOf(series[j]) = pair})

\* C7 as stated, for the pairs whose listing is fetched at all: at the end
\* of a batch run the edition listing of the (dataset_id, edition_name) pair
\* was fetched exactly once, however many series use the pair and whatever
\* the fetches gave.
C7_ExactlyOnce ==
    pc = "done" =>
        \A pair \in Pairs : ListingFetches(pair) >= 1 => ListingFetches(pair) = 1

\* C7 as amended: the edition listing of a pair is fetched at most once
\* more than the number of the pair's series whose resolution failed; so at
\* most once when none fails, however many series use the pair.
C7_AtMostOncePerFailure ==
    \A pair \in Pairs : ListingFetches(pair) <= FailedResolutions(pair) + 1

\* three series of one pair, all saved, with one listing fetch
C7_Witness ==
    /\ pc = "done"
    /\ Len(series) = 3
    /\ \E pair \in Pairs :
          /\ SeriesOf(pair) = 3
          /\ ListingFetches(pair) = 1
    /\ Len(metadata) = 3

\* the call of the fetchers failed (04: after its retries)
ObsFailed04 == \A j \in 1..3 : IsError(obs_in[j])
ObsBody == obs_in[MaxAttempts]

\* the value fetchObservations gives for an empty series
EmptySeries == <<>>

\* C8: a successful response without observations yields an empty series;
\* a call that exhausted its retries yields a Failure, which is not the
\* value an empty response yields.
C8_FailureIsNotEmpty ==
    obs_out # NotCalled =>
        /\ (~ObsFailed04 /\ ObsBody.observations = <<>>) => obs_out.r04 = EmptySeries
        /\ ObsFailed04 => obs_out.r04 # EmptySeries

\* the observation has a temporal sub-object under "Time" or "time"
HasTemporal(obs) == obs.Time.kind = "obj" \/ obs.time.kind = "obj"

\* the row an observation with a temporal sub-object is exposed as
RowOf(obs) ==
    LET t == IF obs.Time.kind = "obj" THEN obs.Time ELSE obs.time IN
    [period |-> t.id, period_label |-> t.label,
     value |-> IF obs.observation = "15" THEN [nan |-> FALSE, num |-> 15] ELSE NaN]

\* df holds exactly one row per observation of the response that has a
\* temporal sub-object, and no other row
OneRowPerTemporal(df) ==
    LET input == ObsBody.observations
        kept == {j \in 1..Len(input) : HasTemporal(input[j])}
    IN
    /\ Len(df) = Cardinality(kept)
    /\ \A r \in Range(df) \cup {RowOf(input[j]) : j \in kept} :
          Cardinality({j \in 1..Len(df) : df[j] = r})
            = Cardinality({j \in kept : RowOf(input[j]) = r})

\* C9: the output has exactly one row per observation with a temporal
\* sub-object under "Time" or under "time", in the same period and
\* period_label fields; an observation with neither yields no row and
\* removes no other.
C9_TimeKeysUnified ==
    obs_out # NotCalled =>
        /\ ~ObsFailed04 => OneRowPerTemporal(obs_out.r04)
        /\ ~IsError(obs_in[1]) =>
              obs_out.r03.raised = "no" /\ OneRowPerTemporal(obs_out.r03.df)

\* a "Time" observation, one with neither key, and a "time" observation:
\* two rows come out
C9_Witness ==
    /\ obs_out # NotCalled
    /\ ~ObsFailed04
    /\ Len(ObsBody.observations) = 3
    /\ ObsBody.observations[1].Time.kind = "obj"
    /\ ObsBody.observations[1].time = Absent
    /\ ~HasTemporal(ObsBody.observations[2])
    /\ ObsBody.observations[2].TIME = Absent
    /\ ObsBody.observations[3].time.kind = "obj"
    /\ ObsBody.observations[3].Time = Absent
    /\ Len(obs_out.r04) = 2

\* the observation has a temporal sub-object under some spelling of "time"
HasTemporalAnyCase(obs) == HasTemporal(obs) \/ obs.TIME.kind = "obj"

\* C10: the temporal sub-object is found whatever the capitalisation of
\* its key: every observation with one ("Time", "time", "TIME") is kept.
C10_CaseInsensitive ==
    (obs_out # NotCalled /\ ~ObsFailed04) =>
        Len(obs_out.r04) =
            Cardinality({j \in 1..Len(ObsBody.observations) :
                            HasTemporalAnyCase(ObsBody.observations[j])})

\* the period labels of the response, in input order
InputLabels ==
    [j \in 1..Len(ObsBody.observations) |-> ObsBody.observations[j].time.label]

\* (year, month) a Mon-YY label stands for, as a month count
ChronoOf(label) ==
    (IF label.yr <= 68 THEN 2000 + label.yr ELSE 1900 + label.yr) * 12
        + MonthNum[label.mon]

\* df is in non-decreasing chronological order of its Mon-YY labels
Chronological(df) ==
    \A j, k \in 1..Len(df) :
        j < k => ChronoOf(df[j].period_label) <= ChronoOf(df[k].period_label)

\* C11: when every period label is a Mon-YY label, the output is a
\* permutation of the input rows in non-decreasing chronological order of
\* the (year, month) the labels resolve to.
C11_ChronologicalOrder ==
    (/\ obs_out # NotCalled
     /\ \A j \in 1..Len(InputLabels) : InputLabels[j].fmt = "b-y") =>
        /\ OneRowPerTemporal(obs_out.r04) /\ Chronological(obs_out.r04)
        /\ obs_out.r03.raised = "no"
        /\ OneRowPerTemporal(obs_out.r03.df) /\ Chronological(obs_out.r03.df)

\* Jan-24, Dec-23, Feb-24 come out as Dec-23, Jan-24, Feb-24
C11_Witness ==
    /\ obs_out # NotCalled
    /\ InputLabels = <<Jan24, Dec23, Feb24>>
    /\ [j \in 1..3 |-> obs_out.r04[j].period_label] = <<Dec23, Jan24, Feb24>>
    /\ [j \in 1..3 |-> obs_out.r03.df[j].period_label] = <<Dec23, Jan24, Feb24>>

\* neither parse resolves the label
Unresolvable(label) == label.fmt # "b-y" /\ label.mixed.nat

\* df is in non-decreasing lexicographic order of raw period id
OrderedById(df) ==
    \A j, k \in 1..Len(df) :
        j < k => (df[j].period = df[k].period \/ LexLess(df[j].period, df[k].period))

\* C12: if the chronology of at least one item cannot be resolved from its
\* label, the whole output is ordered by raw period id, never with some
\* rows placed by parsed date and the others placed otherwise.
C12_WholeSeriesFallback ==
    (/\ obs_out # NotCalled
     /\ \E j \in 1..Len(InputLabels) : Unresolvable(InputLabels[j])) =>
        OrderedById(obs_out.r04) /\ OrderedById(obs_out.r03.df)

\* the parse that gave the sort key of each row of a frame of 04
StrategyOf(df) == [j \in 1..Len(df) |-> parse_period_by(df[j].period_label)]

\* C13: within one output a single parse strategy decides the position of
\* every row: no row's sort key comes from the primary parse while another
\* row's comes from the permissive parse.
C13_SingleStrategy ==
    obs_out # NotCalled =>
        ~\E j, k \in 1..Len(obs_out.r04) :
            /\ StrategyOf(obs_out.r04)[j] = "primary"
            /\ StrategyOf(obs_out.r04)[k] = "mixed"

\* the period ids of a frame, in order
PeriodsOf(df) == [j \in 1..Len(df) |-> df[j].period]

PageAt(j) == ServerPage(requests[j], limit)

\* C15: pagination stops exactly when a fetched page is empty: after a
\* non-empty page, however short, the loop goes on and the next request
\* carries the offset advanced by the number of items of that page; after
\* an empty page no request follows.
C15_StopsOnEmptyPage ==
    /\ \A j \in 1..(Len(requests) - 1) :
          /\ PageAt(j) # <<>>
          /\ requests[j + 1] = requests[j] + Len(PageAt(j))
    /\ (pg_pc = "loop" /\ requests # <<>>) =>
          /\ PageAt(Len(requests)) # <<>>
          /\ offset = requests[Len(requests)] + Len(PageAt(Len(requests)))
    /\ pg_pc = "returned" => PageAt(Len(requests)) = <<>>
    /\ (/\ requests # <<>>
        /\ responses[Len(requests)] = "ok"
        /\ PageAt(Len(requests)) = <<>>) => pg_pc = "returned"

\* 4 items in pages of 3: the page of one item at offset 3 is followed by
\* the request at offset 4, whose empty page ends the loop
C15_Witness ==
    /\ pg_total = 4 /\ pg_size = 3
    /\ requests = <<0, 3, 4>>
    /\ Len(PageAt(2)) = 1
    /\ pg_pc = "returned"

\* C16: a page fetch that fails ends get_all_datasets with an exception:
\* the items gathered before it are never returned as a complete result.
C16_FailedPageRaises ==
    /\ pg_pc = "returned" => \A j \in 1..Len(responses) : responses[j] = "ok"
    /\ (\E j \in 1..Len(responses) : responses[j] = "error") => pg_pc = "raised"

\* the third page fails after two pages were gathered
C16_Witness ==
    /\ pg_pc = "raised"
    /\ responses = <<"ok", "ok", "error">>
    /\ datasets # <<>>
    /\ Len(datasets) < pg_total

\* the entry of the server's dimension named n
DimNamed(n) == CHOOSE d \in Range(dimensions) : d.name = n

\* the API declares more options for dimension n than the capped request
\* retrieved
UnderFetched(n) ==
    /\ DimNamed(n).declares
    /\ DimNamed(n).size > Cardinality(DOMAIN all_dimensions[n])

\* C17: the value returned by explore_dimensions tells the under-fetched
\* dimensions from the complete ones: two dimensions of one result with
\* the same returned entry are both under-fetched or both complete.
C17_UnderFetchDetectable ==
    dim_pc = "returned" =>
        \A a, b \in DOMAIN all_dimensions :
            all_dimensions[a] = all_dimensions[b] =>
                (UnderFetched(a) <=> UnderFetched(b))

\* the seconds slept in all by a finished call of get_json
RECURSIVE SumSeq(_)
SumSeq(q) == IF q = <<>> THEN 0 ELSE Head(q) + SumSeq(Tail(q))

AllAttemptsFail == \A j \in 1..DefaultRetries : IsError(fetch_in[j])

\* C18 as stated: a fetch whose every attempt fails sleeps 1, 2 and 4
\* seconds, 7 seconds in all, before it returns None.
C18_SevenSeconds ==
    (fetch_out # NotCalled /\ AllAttemptsFail) =>
        /\ fetch_out.result = None
        /\ fetch_out.slept = <<1, 2, 4>>
        /\ SumSeq(fetch_out.slept) = 7

\* C18: a fetch whose every attempt fails sleeps 1 and 2 seconds, 3 seconds
\* in all, before it returns None: no sleep follows the last attempt.
C18_ThreeSeconds ==
    (fetch_out # NotCalled /\ AllAttemptsFail) =>
        /\ fetch_out.result = None
        /\ fetch_out.slept = <<1, 2>>
        /\ SumSeq(fetch_out.slept) = 3

\* a call all of whose three attempts have failed, each with its own error
C18_Witness ==
    /\ fetch_out # NotCalled
    /\ fetch_in[1] = Err("ConnectionError")
    /\ fetch_in[2] = Err("HTTPError")
    /\ fetch_in[3] = Err("JSONDecodeError")
    /\ fetch_out.attempts = 3
    /\ fetch_out.result = None

\* a fetch made by get_edition_url (04) has exhausted its retries
DatasetFetchExhausted == res_in.kd >= DefaultRetries
EditionsFetchExhausted ==
    DatasetFetched04 /\ IsUrl(res_in.ds.editions) /\ res_in.ke >= DefaultRetries

\* C19: no transport failure is swallowed by the resolution: whenever the
\* dataset fetch or the edition-listing fetch exhausts its retries,
\* get_edition_url returns no version URL.
C19_NoFailureSwallowed ==
    res_out # NotCalled =>
        ((DatasetFetchExhausted \/ EditionsFetchExhausted) =>
            ~IsUrl(res_out.r04.url))

\* the positions in SERIES recorded in a list of main, in the list's order
IdxOf(list) == [j \in 1..Len(list) |-> list[j].idx]

Increasing(q) == \A a, b \in 1..Len(q) : a < b => q[a] < q[b]

\* C20: the batch loop handles the series one at a time in list order and
\* no failure stops it: at any moment the series handled are exactly the
\* first i of the list, each recorded once, in list order, in exactly one
\* of metadata and errors; the series in progress is the next of the list;
\* and the loop ends only when every series has been handled, the two
\* lengths then summing to the number of series.
C20_EverySeriesHandledOnce ==
    /\ Range(IdxOf(metadata)) \cup Range(IdxOf(errors)) = 1..i
    /\ Range(IdxOf(metadata)) \cap Range(IdxOf(errors)) = {}
    /\ Increasing(IdxOf(metadata)) /\ Increasing(IdxOf(errors))
    /\ Len(metadata) + Len(errors) = i
    /\ pc \in {"resolve", "download"} => i < Len(series)
    /\ pc = "done" =>
          /\ i = Len(series)
          /\ Len(metadata) + Len(errors) = Len(series)

\* a finished run over three series: the first unresolvable, the second
\* without observations, the third saved
C20_Witness ==
    /\ pc = "done"
    /\ Len(series) = 3
    /\ errors = <<[idx |-> 1, msg |-> "Could not resolve edition"],
                  [idx |-> 2, msg |-> "No observations returned"]>>
    /\ IdxOf(metadata) = <<3>>

\* the raw value is the text of a number
IsNumeric(v) == v = "15"

\* the invalid-value marker, and the number a numeric text stands for
InvalidValue == NaN
NumberOf(v) == [nan |-> FALSE, num |-> 15]

\* df has one row per observation of the response with a temporal
\* sub-object under "Time" or "time", the non-numeric values among them
\* turned into the marker and the numeric ones kept
CoercedNotDropped(df) ==
    LET input == ObsBody.observations
        kept == {j \in 1..Len(input) : HasTemporal(input[j])}
    IN
    /\ Len(df) = Cardinality(kept)
    /\ Cardinality({j \in 1..Len(df) : df[j].value = InvalidValue})
         = Cardinality({j \in kept : ~IsNumeric(input[j].observation)})
    /\ \A v \in RawValues :
          IsNumeric(v) =>
             Cardinality({j \in 1..Len(df) : df[j].value = NumberOf(v)})
               = Cardinality({j \in kept : input[j].observation = v})

\* C21: a value that cannot be coerced to a number neither aborts the
\* fetch nor removes its row: whenever the response arrives, both
\* fetchers return a series with as many rows as there are observations
\* with a temporal sub-object (under "Time" or "time"), each non-numeric
\* value replaced by the invalid-value marker and each numeric value kept.
C21_CoercionKeepsRows ==
    obs_out # NotCalled =>
        /\ ~ObsFailed04 => CoercedNotDropped(obs_out.r04)
        /\ ~IsError(obs_in[1]) =>
              obs_out.r03.raised = "no" /\ CoercedNotDropped(obs_out.r03.df)

\* a response of a non-numeric and a numeric observation: two rows come
\* out of both fetchers, one with the marker and one with the number
C21_Witness ==
    /\ obs_out # NotCalled
    /\ ~IsError(obs_in[1])
    /\ Len(ObsBody.observations) = 2
    /\ HasTemporal(ObsBody.observations[1]) /\ HasTemporal(ObsBody.observations[2])
    /\ ObsBody.observations[1].observation = "n/a"
    /\ ObsBody.observations[2].observation = "15"
    /\ {obs_out.r04[j].value : j \in 1..Len(obs_out.r04)} = {InvalidValue, NumberOf("15")}
    /\ Len(obs_out.r04) = 2
    /\ Len(obs_out.r03.df) = 2

\* the cache key of the series the loop is about to resolve
NextKey == cache_key(series[i + 1])

\* one step of main keeps every entry of the cache as it is, and resolves
\* a series whose key is cached from the cache alone, with no fetch
CacheStep ==
    /\ \A k \in DOMAIN edition_cache :
          k \in DOMAIN edition_cache' /\ edition_cache'[k] = edition_cache[k]
    /\ (pc = "resolve" /\ NextKey \in DOMAIN edition_cache) =>
          /\ calls' = calls
          /\ edition_url' = edition_cache[NextKey]
          /\ pc' = "download"

\* C22: the edition cache of the batch loop holds version URLs only (a
\* failed or empty resolution is never stored); an entry once written is
\* never overwritten or removed; and a series whose key is cached takes
\* the cached URL without any dataset or edition-listing fetch.
C22_CacheInvariant ==
    /\ [](\A k \in DOMAIN edition_cache : IsUrl(edition_cache[k]))
    /\ [][CacheStep]_vars

\* the second series, of the same key as the first, is about to be
\* downloaded with the URL cached by the first, after the three calls
\* (dataset, editions, observations) issued for the first
C22_Witness ==
    /\ pc = "download" /\ i = 1
    /\ Len(series) >= 2
    /\ cache_key(series[2]) = cache_key(series[1])
    /\ DOMAIN edition_cache = {cache_key(series[1])}
    /\ edition_url = edition_cache[cache_key(series[1])]
    /\ Len(calls) = 3
    /\ calls[3][3] = "observations"

====
